---- MODULE Spec2Model ----
(***************************************************************************)
(* Model of importlinter/application/contract_utils.py: the inline-ignore  *)
(* scanner (get_inline_ignored_lines), the ignore-rule resolver            *)
(* (remove_ignored_imports with _handle_unresolved_import_expressions) and *)
(* the occurrence filter (filter_ignored_lines).                           *)
(*                                                                         *)
(* Text is a sequence of character codes, so that substring containment,   *)
(* the " -> " rendering of an expression and the code-point ordering used  *)
(* by sorted(..., key=str) are computed and not assumed.                   *)
(***************************************************************************)
EXTENDS Naturals, Integers, Sequences, FiniteSets, Bags, TLC

VARIABLES
    modules,               \* graph.modules: set of module names
    details,               \* graph: (importer, imported) -> list of occurrence dicts
    ignore_imports,        \* the contract's list of ImportExpression
    last,                  \* record of the most recent call
    prev,                  \* record of the call before it
    import_details,        \* the caller's list handed to filter_ignored_lines
    inline_ignored_lines,  \* the ignored triples handed to filter_ignored_lines
    filtered               \* the list filter_ignored_lines returned

vars == <<modules, details, ignore_imports, last, prev,
          import_details, inline_ignored_lines, filtered>>

\* ------------------------------------------------------------------ bounds
MaxExprs == 2        \* longest ignore_imports list
MaxOccurrences == 2  \* most occurrences recorded for one edge
MaxDetails == 2      \* longest list handed to filter_ignored_lines

\* -------------------------------------------------------------------- text
ModA == <<97>>                       \* "a"
ModB == <<98>>                       \* "b"
ModC == <<99>>                       \* "c"
Star == <<42>>                       \* "*"
Arrow == <<32, 45, 62, 32>>          \* " -> "
PlainLine == <<105, 32, 98>>         \* "i b"     an import line without marker
MarkedLine == <<105, 32, 98, 35, 120>>  \* "i b#x"  an import line carrying "#x"
EmptyKeyword == <<>>                 \* ""
HashKeyword == <<35, 120>>           \* "#x"
OtherKeyword == <<35, 121>>          \* "#y"
MessagePrefix ==                     \* "No matches for ignored import "
    <<78, 111, 32, 109, 97, 116, 99, 104, 101, 115, 32, 102, 111, 114, 32,
      105, 103, 110, 111, 114, 101, 100, 32, 105, 109, 112, 111, 114, 116, 32>>
MessageSuffix == <<46>>              \* "."

\* Python's str < str: code-point lexicographic order, a proper prefix first.
LexLess(s, t) ==
    \E i \in 1..Len(t) :
        /\ \A j \in 1..(i - 1) : j <= Len(s) /\ s[j] = t[j]
        /\ \/ i = Len(s) + 1
           \/ i <= Len(s) /\ s[i] < t[i]

\* Python's `keyword in text` on str.
Contains(keyword, text) ==
    \E i \in 0..(Len(text) - Len(keyword)) :
        SubSeq(text, i + 1, i + Len(keyword)) = keyword

\* ------------------------------------------------------------- AlertLevel
NONE == "none"
WARN == "warn"
ERROR == "error"
AlertLevel == {NONE, WARN, ERROR}

\* ------------------------------------------------------------ expressions
\* ImportExpression(importer, imported) and its string form.
ImportExpression(importer, imported) == [importer |-> importer, imported |-> imported]

ExprStr(expression) == expression.importer \o Arrow \o expression.imported

DirectImport(importer, imported) == <<importer, imported>>

\* ------------------------------------------------------------------ graph
Edges(g) == DOMAIN g

\* graph.find_modules_directly_imported_by(module)
FindModulesDirectlyImportedBy(g, module) ==
    {e[2] : e \in {x \in Edges(g) : x[1] = module}}

\* graph.get_import_details(importer=, imported=)
GetImportDetails(g, importer, imported) ==
    IF <<importer, imported>> \in Edges(g) THEN g[<<importer, imported>>] ELSE <<>>

\* One side of an expression against a module name: a literal name or the
\* single-segment wildcard (module names in this model are single segments).
PatternMatches(pattern, module) == pattern = Star \/ pattern = module

\* The matcher splits the string form at " -> ".
ParseExpression(text) ==
    CHOOSE p \in {<<SubSeq(text, 1, i - 1), SubSeq(text, i + Len(Arrow), Len(text))>> :
                    i \in {k \in 1..(Len(text) - Len(Arrow) + 1) :
                             SubSeq(text, k, k + Len(Arrow) - 1) = Arrow}} : TRUE

\* graph.find_matching_direct_imports(import_expression=text)
FindMatchingDirectImports(g, text) ==
    LET p == ParseExpression(text)
    IN  {e \in Edges(g) : PatternMatches(p[1], e[1]) /\ PatternMatches(p[2], e[2])}

\* graph.remove_import(importer=, imported=): the edge and all its occurrences go.
RemoveImports(g, removed) == [e \in Edges(g) \ removed |-> g[e]]

\* ---------------------------------------------------- InlineIgnoreScanner
\* Variant: the fallback for a missing text is a non-empty line.
LineContentsOrMarked(detail) ==
    IF "line_contents" \in DOMAIN detail THEN detail.line_contents ELSE MarkedLine

\* detail.get("line_contents", "")
LineContentsOrDefault(detail) ==
    IF "line_contents" \in DOMAIN detail THEN detail.line_contents ELSE <<>>

\* Variant: the marker must start the line.
HasInlineIgnorePrefix(line_contents, keyword) ==
    /\ Len(keyword) <= Len(line_contents)
    /\ SubSeq(line_contents, 1, Len(keyword)) = keyword

HasInlineIgnore(line_contents, keyword) == Contains(keyword, line_contents)

\* The occurrence dicts of a list, as a set.
DetailsOf(list) == {list[i] : i \in DOMAIN list}

GetInlineIgnoredLines(ms, g, inline_ignore_keyword) ==
    UNION {
        UNION {
            {<<detail.importer, detail.imported, detail.line_number>> :
                detail \in {d \in DetailsOf(GetImportDetails(g, module, imported_module)) :
                              HasInlineIgnore(LineContentsOrDefault(d),
                                              inline_ignore_keyword)}} :
            imported_module \in FindModulesDirectlyImportedBy(g, module)} :
        module \in ms}

\* ------------------------------------------------------ IgnoreRuleResolver
BuildMissingImportMessage(expression) ==
    MessagePrefix \o ExprStr(expression) \o MessageSuffix

\* Variant: only one of the imports an expression matches is collected.
ImportsToRemoveOnePerExpression(g, exprs) ==
    UNION {LET m == FindMatchingDirectImports(g, ExprStr(exprs[i]))
           IN  IF m = {} THEN {} ELSE {CHOOSE e \in m : TRUE} :
             i \in DOMAIN exprs}

\* imports_to_remove after the loop over ignore_imports: every match set is
\* taken from the graph as it is before any removal.
ImportsToRemove(g, exprs) ==
    UNION {{DirectImport(m[1], m[2]) : m \in FindMatchingDirectImports(g, ExprStr(exprs[i]))} :
             i \in DOMAIN exprs}

\* unresolved_expressions after the loop (a set: a repeated expression is one member).
UnresolvedExpressions(g, exprs) ==
    {exprs[i] : i \in {j \in DOMAIN exprs :
                         FindMatchingDirectImports(g, ExprStr(exprs[j])) = {}}}

\* The orders in which iterating a set can yield its members.
Orderings(S) ==
    {f \in [1..Cardinality(S) -> S] : \A e \in S : \E i \in DOMAIN f : f[i] = e}

\* [... for expression in expressions]: iteration order of a set of hashed
\* objects is not fixed by the program, so every order is a possible list.
WarnMessages(expressions) ==
    {[i \in DOMAIN f |-> BuildMissingImportMessage(f[i])] : f \in Orderings(expressions)}

\* Variant: the last expression in string order is taken.
LastExpression(expressions) ==
    CHOOSE e \in expressions :
        \A f \in expressions \ {e} : LexLess(ExprStr(f), ExprStr(e))

\* sorted(expressions, key=lambda expression: str(expression))[0]
FirstExpression(expressions) ==
    CHOOSE e \in expressions :
        \A f \in expressions \ {e} : LexLess(ExprStr(e), ExprStr(f))

\* Variant: NONE is not short-circuited and is handled like WARN.
HandleUnresolvedNoSilent(expressions, alert_level) ==
    IF expressions = {} THEN {[kind |-> "return", value |-> <<>>]}
    ELSE IF alert_level \in {NONE, WARN}
         THEN {[kind |-> "return", value |-> w] : w \in WarnMessages(expressions)}
         ELSE {[kind |-> "raise",
                value |-> <<BuildMissingImportMessage(FirstExpression(expressions))>>]}

\* The possible outcomes of _handle_unresolved_import_expressions: a returned
\* list of warnings, or a raised MissingImport whose args are in value.
HandleUnresolvedImportExpressions(expressions, alert_level) ==
    IF alert_level = NONE THEN {[kind |-> "return", value |-> <<>>]}
    ELSE IF expressions = {} THEN {[kind |-> "return", value |-> <<>>]}
    ELSE IF alert_level = WARN
         THEN {[kind |-> "return", value |-> w] : w \in WarnMessages(expressions)}
         ELSE {[kind |-> "raise",
                value |-> <<BuildMissingImportMessage(FirstExpression(expressions))>>]}

\* Variant: the removal loop runs before the alerting step.
GraphAfterResolveEager(g, to_remove, outcome) == RemoveImports(g, to_remove)

\* The graph when remove_ignored_imports is left: a raise leaves before the
\* removal loop.
GraphAfterResolve(g, to_remove, outcome) ==
    IF outcome.kind = "raise" THEN g ELSE RemoveImports(g, to_remove)

\* Variant: imports are accumulated in a list, one entry per match.
RemoveCallsPerMatch(g, exprs, outcome) ==
    IF outcome.kind = "raise" THEN EmptyBag
    ELSE [e \in ImportsToRemove(g, exprs) |->
            Cardinality({i \in DOMAIN exprs :
                           e \in FindMatchingDirectImports(g, ExprStr(exprs[i]))})]

\* The remove_import calls of the removal loop, as a bag of (importer, imported):
\* one call per member of the set imports_to_remove, none after a raise.
RemoveCalls(g, exprs, outcome) ==
    IF outcome.kind = "raise" THEN EmptyBag ELSE SetToBag(ImportsToRemove(g, exprs))

\* ------------------------------------------------------ filter_ignored_lines
DetailKey(detail) == <<detail.importer, detail.imported, detail.line_number>>

\* Variant: an entry is dropped when its edge has any ignored line.
FilterIgnoredEdges(list, ignored) ==
    LET Keep(detail) ==
            \A t \in ignored : <<t[1], t[2]>> # <<detail.importer, detail.imported>>
    IN  SelectSeq(list, Keep)

FilterIgnoredLines(list, ignored) ==
    LET Keep(detail) == DetailKey(detail) \notin ignored
    IN  SelectSeq(list, Keep)

\* ------------------------------------------------------------------ inputs
Modules == {ModA, ModB, ModC}
ImportPairs == {p \in Modules \X Modules : p[1] # p[2]}
ResolvePairs == {p \in ImportPairs : p[2] # ModA}
ScanPairs == {<<ModA, ModB>>, <<ModB, ModC>>}
Keywords == {EmptyKeyword, HashKeyword, OtherKeyword}
TextChoices == {"plain", "marked", "absent"}
FilterLines == {1, 2}

Detail(importer, imported, line_number, line_contents) ==
    [importer |-> importer, imported |-> imported,
     line_number |-> line_number, line_contents |-> line_contents]

DetailNoText(importer, imported, line_number) ==
    [importer |-> importer, imported |-> imported, line_number |-> line_number]

\* The occurrence lists an edge can carry: 1..MaxOccurrences lines, each plain,
\* marked, or recorded without its text.
OccurrenceLists(importer, imported) ==
    UNION {
        {[i \in 1..n |->
            IF c[i] = "absent" THEN DetailNoText(importer, imported, i)
            ELSE Detail(importer, imported, i,
                        IF c[i] = "marked" THEN MarkedLine ELSE PlainLine)] :
           c \in [1..n -> TextChoices]} :
        n \in 1..MaxOccurrences}

PlainOccurrences(importer, imported) ==
    [i \in 1..MaxOccurrences |-> Detail(importer, imported, i, PlainLine)]

\* Graphs over the three modules with any set of the edges into b and c.
ResolveGraphs ==
    {[e \in E |-> PlainOccurrences(e[1], e[2])] : E \in SUBSET ResolvePairs}

\* Graphs whose edges carry every mix of marked, plain and text-less lines.
ScanGraphs ==
    {g \in UNION {[E -> UNION {OccurrenceLists(p[1], p[2]) : p \in ScanPairs}] :
                    E \in SUBSET ScanPairs} :
        \A e \in DOMAIN g : g[e] \in OccurrenceLists(e[1], e[2])}

Expressions ==
    {ImportExpression(p, q) : p \in {ModA, Star}, q \in {ModB, ModC, Star}}

ExpressionLists == UNION {[1..n -> Expressions] : n \in 0..MaxExprs}

FilterDetails ==
    {Detail(ModA, n, l, t) : n \in {ModB, ModC}, l \in FilterLines,
                             t \in {PlainLine, MarkedLine}}

FilterLists == UNION {[1..n -> FilterDetails] : n \in 0..MaxDetails}

FilterKeys == {DetailKey(d) : d \in FilterDetails}

NoGraph == [e \in {} |-> <<>>]

NoCall ==
    [op |-> "none", arg |-> <<>>, kind |-> "return", value |-> <<>>,
     before |-> NoGraph, removals |-> EmptyBag]

\* ----------------------------------------------------------------- actions
\* remove_ignored_imports(graph, ignore_imports, unmatched_alerting)
Resolve(unmatched_alerting) ==
    LET to_remove == ImportsToRemove(details, ignore_imports)
        unresolved == UnresolvedExpressions(details, ignore_imports)
    IN  \E outcome \in HandleUnresolvedImportExpressions(unresolved, unmatched_alerting) :
            /\ details' = GraphAfterResolve(details, to_remove, outcome)
            /\ last' = [op |-> "resolve", arg |-> unmatched_alerting,
                        kind |-> outcome.kind, value |-> outcome.value,
                        before |-> details,
                        removals |-> RemoveCalls(details, ignore_imports, outcome)]
            /\ prev' = last
            /\ UNCHANGED <<modules, ignore_imports, import_details,
                           inline_ignored_lines, filtered>>

\* Variant: the scan also drops every edge that has a marked line.
ScanRemoving(inline_ignore_keyword) ==
    LET found == GetInlineIgnoredLines(modules, details, inline_ignore_keyword)
    IN  /\ last' = [op |-> "scan", arg |-> inline_ignore_keyword, kind |-> "return",
                    value |-> found, before |-> details, removals |-> EmptyBag]
        /\ prev' = last
        /\ details' = RemoveImports(details, {<<t[1], t[2]>> : t \in found})
        /\ UNCHANGED <<modules, ignore_imports, import_details,
                       inline_ignored_lines, filtered>>

\* get_inline_ignored_lines(graph, inline_ignore_keyword)
Scan(inline_ignore_keyword) ==
    /\ last' = [op |-> "scan", arg |-> inline_ignore_keyword, kind |-> "return",
                value |-> GetInlineIgnoredLines(modules, details, inline_ignore_keyword),
                before |-> details, removals |-> EmptyBag]
    /\ prev' = last
    /\ UNCHANGED <<modules, details, ignore_imports, import_details,
                   inline_ignored_lines, filtered>>

\* filter_ignored_lines(import_details, inline_ignored_lines)
Filter ==
    /\ filtered' = FilterIgnoredLines(import_details, inline_ignored_lines)
    /\ last' = [op |-> "filter", arg |-> import_details, kind |-> "return",
                value |-> inline_ignored_lines, before |-> details,
                removals |-> EmptyBag]
    /\ prev' = last
    /\ UNCHANGED <<modules, details, ignore_imports, import_details,
                   inline_ignored_lines>>

\* ---------------------------------------------------------- specifications
\* The resolver: a graph, the contract's ignore list, then resolve calls.
Init ==
    /\ modules = Modules
    /\ details \in ResolveGraphs
    /\ ignore_imports \in ExpressionLists
    /\ last = NoCall
    /\ prev = NoCall
    /\ import_details = <<>>
    /\ inline_ignored_lines = {}
    /\ filtered = <<>>

Next == \E unmatched_alerting \in AlertLevel : Resolve(unmatched_alerting)

Spec == Init /\ [][Next]_vars

\* The scanner: a graph with located occurrences, then scan calls.
InitScan ==
    /\ modules = Modules
    /\ details \in ScanGraphs
    /\ ignore_imports = <<>>
    /\ last = NoCall
    /\ prev = NoCall
    /\ import_details = <<>>
    /\ inline_ignored_lines = {}
    /\ filtered = <<>>

NextScan == \E inline_ignore_keyword \in Keywords : Scan(inline_ignore_keyword)

SpecScan == InitScan /\ [][NextScan]_vars

\* The filter: a list of occurrence dicts and a set of ignored triples.
InitFilter ==
    /\ modules = {}
    /\ details = NoGraph
    /\ ignore_imports = <<>>
    /\ last = NoCall
    /\ prev = NoCall
    /\ import_details \in FilterLists
    /\ inline_ignored_lines \in SUBSET FilterKeys
    /\ filtered = <<>>

NextFilter == Filter

SpecFilter == InitFilter /\ [][NextFilter]_vars

\* ------------------------------------------------------------------ claims
\* An expression against an edge, read off the expression's two fields.
MatchedBy(expression, e) ==
    /\ PatternMatches(expression.importer, e[1])
    /\ PatternMatches(expression.imported, e[2])

\* The expressions of a list that match no edge of g.
UnmatchedIn(g, exprs) ==
    {exprs[i] : i \in {j \in DOMAIN exprs : \A e \in Edges(g) : ~MatchedBy(exprs[j], e)}}

\* The edges of g that some expression of the list matches.
MatchedUnion(g, exprs) ==
    {e \in Edges(g) : \E i \in DOMAIN exprs : MatchedBy(exprs[i], e)}

\* "No matches for ignored import {expr}."
MessageFor(expression) ==
    MessagePrefix \o expression.importer \o Arrow \o expression.imported \o MessageSuffix

\* C1: a resolve call at level ERROR with at least one expression that matches
\* no edge raises, issues no remove_import and leaves the graph as it was, even
\* when other expressions of the list matched edges.
C1_ErrorLeavesGraphUntouched ==
    (last.op = "resolve" /\ last.arg = ERROR
        /\ UnmatchedIn(last.before, ignore_imports) # {})
    => /\ last.kind = "raise"
       /\ details = last.before
       /\ last.removals = EmptyBag

C1_Witness ==
    /\ last.op = "resolve" /\ last.arg = ERROR
    /\ UnmatchedIn(last.before, ignore_imports) # {}
    /\ MatchedUnion(last.before, ignore_imports) # {}
    /\ last.kind = "raise"
    /\ Edges(details) # {}

\* C2: at level WARN the returned list has one entry per unmatched expression,
\* each the missing-import message, in ascending order of the expressions'
\* string form, whatever the order in which they were given or accumulated.
C2_WarningsAscending ==
    (last.op = "resolve" /\ last.arg = WARN)
    => \E f \in Orderings(UnmatchedIn(last.before, ignore_imports)) :
          /\ \A i, j \in DOMAIN f : i < j => LexLess(ExprStr(f[i]), ExprStr(f[j]))
          /\ last.kind = "return"
          /\ last.value = [i \in DOMAIN f |-> MessageFor(f[i])]

\* C3: a resolve call that fails at level ERROR carries exactly one message, the
\* one for the smallest unmatched expression in string order (whatever its place
\* in the input list), and returns no warning list.
C3_ErrorNamesSmallest ==
    (last.op = "resolve" /\ last.arg = ERROR
        /\ UnmatchedIn(last.before, ignore_imports) # {})
    => /\ last.kind = "raise"
       /\ Len(last.value) = 1
       /\ \E e \in UnmatchedIn(last.before, ignore_imports) :
             /\ \A f \in UnmatchedIn(last.before, ignore_imports) \ {e} :
                   LexLess(ExprStr(e), ExprStr(f))
             /\ last.value[1] = MessageFor(e)

\* The first unmatched expression of the list is not the one named.
C3_Witness ==
    /\ last.op = "resolve" /\ last.arg = ERROR /\ last.kind = "raise"
    /\ Len(ignore_imports) >= 2
    /\ Cardinality(UnmatchedIn(last.before, ignore_imports)) >= 2
    /\ ignore_imports[1] \in UnmatchedIn(last.before, ignore_imports)
    /\ last.value[1] # MessageFor(ignore_imports[1])

\* C4: a resolve call at level NONE never raises and returns an empty warning
\* list, whether or not its expressions match.
C4_NoneIsSilent ==
    (last.op = "resolve" /\ last.arg = NONE)
    => last.kind = "return" /\ last.value = <<>>

C4_Witness ==
    /\ last.op = "resolve" /\ last.arg = NONE
    /\ UnmatchedIn(last.before, ignore_imports) # {}
    /\ MatchedUnion(last.before, ignore_imports) # {}
    /\ last.kind = "return"

\* The text of an occurrence, empty when the record carries none.
TextOf(detail) ==
    IF "line_contents" \in DOMAIN detail THEN detail.line_contents ELSE <<>>

\* C5: scan returns (a, b, n) exactly for the occurrences of an edge a->b at
\* line n whose text (empty when absent) contains the keyword as a substring:
\* unmarked lines of an edge and modules without imports contribute nothing.
C5_ScanReturnsMarkedLines ==
    last.op = "scan"
    => last.value =
         UNION {{<<e[1], e[2], details[e][i].line_number>> :
                   i \in {j \in DOMAIN details[e] :
                            Contains(last.arg, TextOf(details[e][j]))}} :
                  e \in Edges(details)}

\* An edge with a marked and an unmarked line, and only the marked one returned.
C5_Witness ==
    /\ last.op = "scan" /\ last.arg = HashKeyword
    /\ \E e \in Edges(details) : \E i, j \in DOMAIN details[e] :
          /\ <<e[1], e[2], details[e][i].line_number>> \in last.value
          /\ <<e[1], e[2], details[e][j].line_number>> \notin last.value
          /\ "line_contents" \in DOMAIN details[e][j]
    /\ \E m \in modules : FindModulesDirectlyImportedBy(details, m) = {}

\* The indices of a list whose key triple is not ignored.
KeptIndices(list, ignored) ==
    {i \in DOMAIN list : DetailKey(list[i]) \notin ignored}

\* C6: filter_ignored_lines returns the entries whose key triple is not ignored,
\* in their input order; with nothing ignored it returns the input; the input
\* list is left as it was.
C6_FilterIsOrderedProjection ==
    last.op = "filter"
    => LET kept == KeptIndices(last.arg, last.value)
       IN  /\ import_details = last.arg
           /\ Len(filtered) = Cardinality(kept)
           /\ \A n \in DOMAIN filtered :
                 \E k \in kept :
                    /\ Cardinality({j \in kept : j <= k}) = n
                    /\ filtered[n] = last.arg[k]
           /\ (last.value = {} => filtered = last.arg)

\* One entry dropped out of a list whose entries share an edge.
C6_Witness ==
    /\ last.op = "filter"
    /\ Len(import_details) = 2 /\ Len(filtered) = 1
    /\ import_details[1].imported = import_details[2].imported
    /\ filtered[1] = import_details[2]

\* C7: when every expression of the list matched on the graph a resolve call
\* started from, the next resolve call with the same list removes no further
\* edge, whatever it returns or raises.
C7_SecondResolveRemovesNothing ==
    (last.op = "resolve" /\ prev.op = "resolve"
        /\ UnmatchedIn(prev.before, ignore_imports) = {})
    => /\ Edges(last.before) = Edges(prev.before) \ MatchedUnion(prev.before, ignore_imports)
       /\ Edges(details) = Edges(last.before)
       /\ last.removals = EmptyBag

\* The first call removed edges and the second one met unmatched expressions.
C7_Witness ==
    /\ last.op = "resolve" /\ prev.op = "resolve"
    /\ ignore_imports # <<>>
    /\ UnmatchedIn(prev.before, ignore_imports) = {}
    /\ Cardinality(Edges(prev.before) \ Edges(last.before)) >= 2
    /\ last.kind = "raise"
    /\ Edges(details) # {}

\* C8: a scan step changes neither the modules nor the edges nor their
\* occurrences and issues no removal, and a scan that follows a scan with the
\* same keyword returns the same set.
C8_ScanIsReadOnly ==
    [][last'.op = "scan"
        => /\ modules' = modules
           /\ details' = details
           /\ last'.before = details
           /\ last'.removals = EmptyBag
           /\ ((last.op = "scan" /\ last.arg = last'.arg)
                 => last'.value = last.value)]_vars

C8_Witness ==
    /\ last.op = "scan" /\ prev.op = "scan"
    /\ last.arg = prev.arg
    /\ last.value # {}
    /\ last.value = prev.value
    /\ details = prev.before

\* C9: a resolve call at level NONE or WARN, or at level ERROR with every
\* expression matched, returns; afterwards the edges are those of the graph
\* before the call minus every edge some expression matched on that graph, and
\* remove_import was issued exactly once for each such edge.
C9_ResolveRemovesMatchedUnionOnce ==
    (last.op = "resolve"
        /\ (last.arg # ERROR \/ UnmatchedIn(last.before, ignore_imports) = {}))
    => /\ last.kind = "return"
       /\ Edges(details) = Edges(last.before) \ MatchedUnion(last.before, ignore_imports)
       /\ \A e \in Edges(details) : details[e] = last.before[e]
       /\ BagToSet(last.removals) = MatchedUnion(last.before, ignore_imports)
       /\ \A e \in MatchedUnion(last.before, ignore_imports) :
             CopiesIn(e, last.removals) = 1

\* Two entries of the list match one edge, which was removed.
C9_Witness ==
    /\ last.op = "resolve" /\ last.kind = "return"
    /\ Len(ignore_imports) = 2
    /\ \E e \in Edges(last.before) :
          /\ MatchedBy(ignore_imports[1], e) /\ MatchedBy(ignore_imports[2], e)
          /\ e \notin Edges(details)
    /\ Edges(details) # {}

\* The key triples of the occurrences recorded without line text.
TextlessKeys(g) ==
    UNION {{<<e[1], e[2], g[e][i].line_number>> :
              i \in {j \in DOMAIN g[e] : "line_contents" \notin DOMAIN g[e][j]}} :
             e \in Edges(g)}

\* C10 as stated: whatever the keyword, the empty one included, the triple of an
\* occurrence recorded without line text is not in the set scan returns.
C10_TextlessNeverReturned ==
    last.op = "scan" => TextlessKeys(details) \cap last.value = {}

\* C10 amended: for a non-empty keyword the triple of an occurrence recorded
\* without line text is not in the set scan returns; for the empty keyword it is.
C10_TextlessReturnedOnlyForEmptyKeyword ==
    last.op = "scan"
    => IF last.arg = <<>>
       THEN TextlessKeys(details) \subseteq last.value
       ELSE TextlessKeys(details) \cap last.value = {}

C10_Witness ==
    /\ last.op = "scan" /\ last.arg = HashKeyword
    /\ TextlessKeys(details) # {}
    /\ last.value # {}

====
